---- MODULE Spec2Model ----
(***************************************************************************)
(* State-machine model of the migration orchestration engine of            *)
(* terraform-cloud-s3-migrator (internal/migrator/migrator.go), together   *)
(* with the parts of its two collaborators it relies on                    *)
(* (internal/terraform client, internal/s3client/client.go).               *)
(*                                                                         *)
(* One run of Migrator.Migrate is modelled: connection validation, the     *)
(* planner (getWorkspacesToMigrate), the batch scheduler (processBatches), *)
(* the concurrent batch runner (processBatch: one goroutine per workspace, *)
(* a buffered channel as admission semaphore, a WaitGroup, a Mutex around  *)
(* the shared MigrationStats) and the per-workspace task                   *)
(* (migrateWorkspace: fetch, dry-run short cut, upload with retry and      *)
(* linear backoff).  Strings are sequences of one-character strings, so    *)
(* that suffix stripping is computed, not assumed.                         *)
(***************************************************************************)
EXTENDS Integers, Sequences, FiniteSets, TLC

(***************************************************************************)
(* Bounds of the model.                                                    *)
(***************************************************************************)
\* longest plan (and longest --projects filter) explored
MaxWs == 3
\* largest batch_size explored (Config.Validate requires > 0)
MaxBatchSize == 3
\* largest concurrent_uploads explored (Config.Validate requires > 0)
MaxConcurrent == 2
\* largest retry_attempts explored (Config.Validate does not constrain it)
MaxRetry == 3
\* budget of upload calls of one explored run (plan length * retry_attempts *
\* concurrent_uploads)
MaxUploads == 6
\* longest plan explored in a dry run
LongPlan == 7
\* a second run is explored when the inventory is shorter than MaxWs and the
\* first run had at most this many fetch and upload calls to make (inventory
\* size * (1 + retry_attempts)); batch sizes and concurrency limits above the
\* inventory size behave like the inventory size and are left out
MaxRerunCalls == 4

(***************************************************************************)
(* Strings.                                                                *)
(***************************************************************************)
UpperCase ==
  <<"A", "B", "C", "D", "E", "F", "G", "H", "I", "J", "K", "L", "M", "N", "O", "P", "Q",
    "R", "S", "T", "U", "V", "W", "X", "Y", "Z">>

LowerCase ==
  <<"a", "b", "c", "d", "e", "f", "g", "h", "i", "j", "k", "l", "m", "n", "o", "p", "q",
    "r", "s", "t", "u", "v", "w", "x", "y", "z">>

\* strings.ToLower on one character (workspace names are ASCII letters, digits,
\* "-" and "_")
LowerChar(c) ==
  IF \E k \in DOMAIN UpperCase : UpperCase[k] = c
  THEN LowerCase[CHOOSE k \in DOMAIN UpperCase : UpperCase[k] = c]
  ELSE c

\* mutant: the name is matched as written, case-sensitively
ToLowerIdentity(s) == s

ToLower(s) == [k \in 1..Len(s) |-> LowerChar(s[k])]

HasSuffix(s, suffix) ==
  /\ Len(s) >= Len(suffix)
  /\ SubSeq(s, Len(s) - Len(suffix) + 1, Len(s)) = suffix

\* the ordered literal list of removeEnvironmentSuffix
envSuffixes ==
  << <<"-", "s", "t", "g">>,
     <<"-", "p", "r", "d">>,
     <<"-", "d", "e", "v">>,
     <<"-", "p", "r", "o", "d">>,
     <<"-", "s", "t", "a", "g", "i", "n", "g">>,
     <<"-", "p", "r", "o", "d", "u", "c", "t", "i", "o", "n">>,
     <<"-", "t", "e", "s", "t">>,
     <<"-", "q", "a">>,
     <<"-", "u", "a", "t">> >>

\* mutant: the suffix is cut from the lower-cased name
RECURSIVE RemoveSuffixFromLowered(_, _)
RemoveSuffixFromLowered(workspaceName, k) ==
  IF k > Len(envSuffixes) THEN workspaceName
  ELSE IF HasSuffix(ToLower(workspaceName), envSuffixes[k])
       THEN SubSeq(ToLower(workspaceName), 1, Len(workspaceName) - Len(envSuffixes[k]))
       ELSE RemoveSuffixFromLowered(workspaceName, k + 1)

\* the loop of removeEnvironmentSuffix from list index k on: the first suffix
\* that matches the lower-cased name is cut from the original name
RECURSIVE RemoveSuffixFrom(_, _)
RemoveSuffixFrom(workspaceName, k) ==
  IF k > Len(envSuffixes) THEN workspaceName
  ELSE IF HasSuffix(ToLower(workspaceName), envSuffixes[k])
       THEN SubSeq(workspaceName, 1, Len(workspaceName) - Len(envSuffixes[k]))
       ELSE RemoveSuffixFrom(workspaceName, k + 1)

removeEnvironmentSuffix(workspaceName) == RemoveSuffixFrom(workspaceName, 1)

(***************************************************************************)
(* The two collaborators' data.                                            *)
(***************************************************************************)
\* terraform.Workspace (the fields the core reads)
Workspace(id, name, hasState) == [ID |-> id, Name |-> name, HasState |-> hasState]

\* the workspaces that may exist in the organization, in listing order
Catalogue ==
  << <<"a", "-", "p", "r", "d">>,
     <<"a", "-", "Q", "A">>,
     <<"b">>,
     <<"c", "-", "D", "E", "V">>,
     <<"d">>,
     <<"e">>,
     <<"f">>,
     <<"g">>,
     <<"h">> >>

\* a name no workspace has
MissingName == <<"z">>

stateFile ==
  <<"t", "e", "r", "r", "a", "f", "o", "r", "m", ".", "t", "f", "s", "t", "a", "t", "e">>

metadataFile ==
  <<"m", "e", "t", "a", "d", "a", "t", "a", ".", "j", "s", "o", "n">>

\* filepath.Join(workspaceName, filename); the organization is not part of the key
generateStateKey(organization, workspaceName, filename) ==
  workspaceName \o <<"/">> \o filename

Organization == <<"o", "r", "g">>

\* an object of the bucket: absent, or holding the content taken from workspace
\* ws (ws = 0: content that was there before the run)
Absent == [present |-> FALSE, ws |-> 0]
Object(id) == [present |-> TRUE, ws |-> id]

DestNames == {removeEnvironmentSuffix(Catalogue[k]) : k \in 1..Len(Catalogue)}

Keys ==
  {generateStateKey(Organization, d, f) : d \in DestNames, f \in {stateFile, metadataFile}}

\* errors are values of one shape: which call failed, the attempt count a
\* retry failure reports, and the object write and attempt that caused it
Nil == [kind |-> "nil", attempts |-> 0, op |-> "none", at |-> 0]
Err(kind, attempts, op, at) == [kind |-> kind, attempts |-> attempts, op |-> op, at |-> at]

(***************************************************************************)
(* State.                                                                  *)
(***************************************************************************)
VARIABLES
  config,      \* config.MigrationConfig: BatchSize, ConcurrentUploads, RetryAttempts
  options,     \* MigrationOptions: DryRun, Projects
  tfc,         \* the organization's workspaces (source service), in listing order
  s3Before,    \* history: the bucket as the run found it
  s3,          \* the bucket: key -> object
  pc,          \* where Migrate's goroutine is
  ret,         \* what Migrate returned ("none" while it runs)
  stats,       \* MigrationStats: Total, Successful, Failed, FailedItems
  summary,     \* what logFinalStats logged (NoSummary before)
  workspaces,  \* the planner's result, the sequence processBatches cuts up
  diag,        \* the planner's diagnostics and the calls it made
  i,           \* processBatches' loop index (0-based offset of the batch)
  wg,          \* processBatch's WaitGroup counter
  sem,         \* processBatch's semaphore channel: number of tokens in it
  mu,          \* processBatch's Mutex: the task holding it, 0 when free
  tasks,       \* one goroutine per position of the plan
  batches,     \* history: the batches handed to processBatch, in order
  pacing,      \* history: the pacing sleeps (after which batch, how long)
  prev,        \* history: what the previous run of the command planned and recorded
  norm,        \* removeEnvironmentSuffix called on its own: the argument and the result
  exitCode     \* the process's exit status (-1 while it runs)

vars ==
  <<exitCode, norm, prev, config, options, tfc, s3Before, s3, pc, ret, stats, summary, workspaces, diag, i, wg,
    sem, mu, tasks, batches, pacing>>

\* configurations Config.Validate accepts (it checks batch_size > 0 and
\* concurrent_uploads > 0 and leaves retry_attempts unchecked)
Configs ==
  [BatchSize : 1..MaxBatchSize,
   ConcurrentUploads : 1..MaxConcurrent,
   RetryAttempts : 0..MaxRetry]

\* inventories: the first n workspaces of the catalogue; all with state, or
\* the second without, or none with state
Inventories ==
  {[k \in 1..n |-> Workspace(k, Catalogue[k], k \notin noState)] :
     <<n, noState>> \in
       {x \in (0..LongPlan) \X {{}, {2}, 1..LongPlan} :
          /\ x[1] <= Len(Catalogue)
          /\ x[2] \in {{}, {2} \cap (1..x[1]), 1..LongPlan}}}

\* --projects lists: none (all workspaces), a list with an unknown name, a
\* list that repeats a name, a list of unknown names only
Filters ==
  { <<>>,
    <<Catalogue[1], MissingName, Catalogue[3]>>,
    <<Catalogue[2], Catalogue[2]>>,
    <<MissingName>> }

EmptyBucket == [key \in Keys |-> Absent]

\* the bucket after an earlier run migrated the workspaces named d
MigratedBucket(d) ==
  [key \in Keys |->
     IF key \in {generateStateKey(Organization, d, stateFile),
                 generateStateKey(Organization, d, metadataFile)}
     THEN Object(0) ELSE Absent]

\* buckets before the run: empty, or destination "b" migrated earlier
Buckets == {EmptyBucket, MigratedBucket(removeEnvironmentSuffix(Catalogue[3]))}

\* the configuration the planning scenarios run under
SmallConfig == [BatchSize |-> 2, ConcurrentUploads |-> 2, RetryAttempts |-> 1]

\* an unfiltered run over an inventory where everything is to be migrated
MigratesAll(opts, inventory, bucket) ==
  /\ opts.Projects = <<>>
  /\ \A k \in 1..Len(inventory) : inventory[k].HasState
  /\ bucket = EmptyBucket

\* the runs explored: every configuration on a run that migrates all of at most
\* MaxWs workspaces, as long as the upload calls the run can make, times the
\* concurrency limit, stay within MaxUploads, and a batch's width times the
\* concurrency limit stays within the same budget;
\* every inventory of at most MaxWs workspaces, filter and bucket under one
\* small configuration; and dry runs that migrate all of up to LongPlan
\* workspaces, one upload at a time, in batches at most one wider than the
\* small configuration's; and one full batch under the small configuration
\* with a second attempt
Scenario(cfg, opts, inventory, bucket) ==
  \/ /\ MigratesAll(opts, inventory, bucket)
     /\ Len(inventory) <= MaxWs
     /\ Len(inventory) * cfg.RetryAttempts * cfg.ConcurrentUploads <= MaxUploads
     /\ cfg.BatchSize * cfg.ConcurrentUploads <= MaxUploads
  \/ /\ cfg = SmallConfig
     /\ Len(inventory) <= MaxWs
  \/ /\ MigratesAll(opts, inventory, bucket)
     /\ opts.DryRun
     /\ cfg.ConcurrentUploads = 1
     /\ cfg.RetryAttempts = 1
     /\ cfg.BatchSize <= SmallConfig.BatchSize + 1
  \/ /\ MigratesAll(opts, inventory, bucket)
     /\ cfg = [SmallConfig EXCEPT !.RetryAttempts = 2]
     /\ Len(inventory) = cfg.BatchSize

ZeroStats == [Total |-> 0, Successful |-> 0, Failed |-> 0, FailedItems |-> <<>>]

\* nothing has been logged by logFinalStats
NoSummary ==
  [mode |-> "none", total |-> 0, successful |-> 0, failed |-> 0, failedItems |-> <<>>,
   rate |-> 0]

\* lookupErrs: the filter positions whose GetWorkspaceByName call failed although
\* the workspace exists; checkErrs: the positions of the resolved workspaces
\* whose CheckStateExists call failed although the state object exists
NoDiag ==
  [planned |-> FALSE, notFound |-> <<>>, resolved |-> <<>>, withoutState |-> <<>>,
   existing |-> <<>>, checked |-> <<>>, lookupErrs |-> {}, checkErrs |-> {},
   analysis |-> [total_found |-> 0, with_state |-> 0, without_state |-> 0,
                 already_migrated |-> 0, to_migrate |-> 0]]

\* no run of the command has returned yet
NoPrev ==
  [ran |-> FALSE, planned |-> FALSE, dryRun |-> FALSE, plan |-> <<>>, succeeded |-> {},
   uploaded |-> {}, failed |-> {}, lookupErrs |-> {}, checkErrs |-> {},
   outcomes |-> <<>>, stats |-> ZeroStats]

\* removeEnvironmentSuffix is not being called on its own
NoNorm == [called |-> FALSE, name |-> <<>>, out |-> <<>>]

Init ==
  /\ exitCode = -1
  /\ norm = NoNorm
  /\ prev = NoPrev
  /\ config \in Configs
  /\ options \in [DryRun : BOOLEAN, Projects : Filters]
  /\ tfc \in Inventories
  /\ s3 \in Buckets
  /\ s3Before = s3
  /\ Scenario(config, options, tfc, s3)
  /\ pc = "validateTF"
  /\ ret = "none"
  /\ stats = ZeroStats
  /\ summary = NoSummary
  /\ workspaces = <<>>
  /\ diag = NoDiag
  /\ i = 0
  /\ wg = 0
  /\ sem = 0
  /\ mu = 0
  /\ tasks = <<>>
  /\ batches = <<>>
  /\ pacing = <<>>

(***************************************************************************)
(* Migrate: connection validation.                                         *)
(***************************************************************************)
\* mutant: a failed validation is recorded but Migrate goes on
ReturnFallsThrough(value) ==
  /\ pc' = CASE pc = "validateTF" -> "validateS3"
            [] pc = "validateS3" -> "plan"
            [] OTHER -> "done"
  /\ ret' = value

\* Migrate returns err: nothing after the return statement runs
Return(value) ==
  /\ pc' = "done"
  /\ ret' = value

\* ValidateConnections, first half: tfClient.ValidateConnection
ValidateTerraform ==
  /\ pc = "validateTF"
  /\ \E ok \in BOOLEAN :
       IF ok
       THEN /\ pc' = "validateS3"
            /\ ret' = ret
       ELSE Return("errValidateTerraform")
  /\ UNCHANGED <<exitCode, norm, prev, config, options, tfc, s3Before, s3, stats, summary, workspaces, diag, i, wg,
                 sem, mu, tasks, batches, pacing>>

\* ValidateConnections, second half: s3Client.ValidateConnection (HeadBucket)
ValidateS3 ==
  /\ pc = "validateS3"
  /\ \E ok \in BOOLEAN :
       IF ok
       THEN /\ pc' = "plan"
            /\ ret' = ret
       ELSE Return("errValidateS3")
  /\ UNCHANGED <<exitCode, norm, prev, config, options, tfc, s3Before, s3, stats, summary, workspaces, diag, i, wg,
                 sem, mu, tasks, batches, pacing>>

(***************************************************************************)
(* The planner: getWorkspacesToMigrate.                                    *)
(***************************************************************************)
\* tfe Workspaces.Read by name: the position of the workspace, 0 if none
Lookup(name) ==
  IF \E k \in 1..Len(tfc) : tfc[k].Name = name
  THEN CHOOSE k \in 1..Len(tfc) : tfc[k].Name = name
  ELSE 0

\* mutant: the loop stops at the first name that does not resolve
RECURSIVE ResolveFilterStops(_, _, _)
ResolveFilterStops(projectFilter, failing, k) ==
  IF k > Len(projectFilter) THEN [workspaces |-> <<>>, notFound |-> <<>>]
  ELSE IF Lookup(projectFilter[k]) = 0 \/ k \in failing
       THEN [workspaces |-> <<>>, notFound |-> <<projectFilter[k]>>]
       ELSE [ResolveFilterStops(projectFilter, failing, k + 1)
               EXCEPT !.workspaces = <<tfc[Lookup(projectFilter[k])]>> \o @]

\* the filter loop from position k on: GetWorkspaceByName per name, in filter
\* order; a name whose call returns an error (no such workspace, or the call
\* itself failing: the positions in failing) goes to notFoundProjects
RECURSIVE ResolveFilter(_, _, _)
ResolveFilter(projectFilter, failing, k) ==
  IF k > Len(projectFilter) THEN [workspaces |-> <<>>, notFound |-> <<>>]
  ELSE LET rest == ResolveFilter(projectFilter, failing, k + 1)
           found == Lookup(projectFilter[k])
       IN IF found = 0 \/ k \in failing
          THEN [rest EXCEPT !.notFound = <<projectFilter[k]>> \o @]
          ELSE [rest EXCEPT !.workspaces = <<tfc[found]>> \o @]

\* mutant: a failing HeadObject call is taken for "exists"
CheckStateExistsFailClosed(organization, workspaceName, erroring) ==
  IF erroring THEN TRUE
  ELSE s3[generateStateKey(organization, workspaceName, stateFile)].present

\* mutant: every HeadObject answer is taken for "not found"
CheckStateExistsNever(organization, workspaceName, erroring) == FALSE

\* CheckStateExists: HeadObject on the state key; a failing call (erroring)
\* returns (false, err)
CheckStateExists(organization, workspaceName, erroring) ==
  IF erroring THEN FALSE
  ELSE s3[generateStateKey(organization, workspaceName, stateFile)].present

\* mutant: the HasState test is missing
RECURSIVE FilterByStateNoHasState(_, _, _)
FilterByStateNoHasState(found, checkErr, k) ==
  IF k > Len(found)
  THEN [withState |-> <<>>, withoutState |-> <<>>, existing |-> <<>>, checked |-> <<>>]
  ELSE LET rest == FilterByStateNoHasState(found, checkErr, k + 1)
           ws == found[k]
           cleanName == removeEnvironmentSuffix(ws.Name)
       IN IF CheckStateExists(Organization, cleanName, k \in checkErr)
          THEN [rest EXCEPT !.existing = <<ws.Name>> \o @,
                            !.checked = <<ws.Name>> \o @]
          ELSE [rest EXCEPT !.withState = <<ws>> \o @,
                            !.checked = <<ws.Name>> \o @]

\* mutant: the migration set is built back to front
RECURSIVE FilterByStateReversed(_, _, _)
FilterByStateReversed(found, checkErr, k) ==
  IF k > Len(found)
  THEN [withState |-> <<>>, withoutState |-> <<>>, existing |-> <<>>, checked |-> <<>>]
  ELSE LET rest == FilterByStateReversed(found, checkErr, k + 1)
           ws == found[k]
           cleanName == removeEnvironmentSuffix(ws.Name)
       IN IF ~ws.HasState
          THEN [rest EXCEPT !.withoutState = <<ws.Name>> \o @]
          ELSE IF CheckStateExists(Organization, cleanName, k \in checkErr)
               THEN [rest EXCEPT !.existing = <<ws.Name>> \o @,
                                 !.checked = <<ws.Name>> \o @]
               ELSE [rest EXCEPT !.withState = @ \o <<ws>>,
                                 !.checked = <<ws.Name>> \o @]

\* the state/existence loop from position k on; checkErr: the positions whose
\* existence query returns an error
RECURSIVE FilterByState(_, _, _)
FilterByState(found, checkErr, k) ==
  IF k > Len(found)
  THEN [withState |-> <<>>, withoutState |-> <<>>, existing |-> <<>>, checked |-> <<>>]
  ELSE LET rest == FilterByState(found, checkErr, k + 1)
           ws == found[k]
           cleanName == removeEnvironmentSuffix(ws.Name)
       IN IF ~ws.HasState
          THEN [rest EXCEPT !.withoutState = <<ws.Name>> \o @]
          ELSE IF CheckStateExists(Organization, cleanName, k \in checkErr)
               THEN [rest EXCEPT !.existing = <<ws.Name>> \o @,
                                 !.checked = <<ws.Name>> \o @]
               ELSE [rest EXCEPT !.withState = <<ws>> \o @,
                                 !.checked = <<ws.Name>> \o @]

\* the state object of workspace name's destination is in the bucket
StateExists(name) ==
  s3[generateStateKey(Organization, removeEnvironmentSuffix(name), stateFile)].present

\* the positions of found the loop calls CheckStateExists for
StateChecks(found) == {k \in 1..Len(found) : found[k].HasState}

\* a goroutine that has not been started; fetched, fetchCalls, uploadCalls, okAt
\* (the attempt whose UploadState call first returned nil) and waits (the
\* backoff delays slept) are history
IdleTask ==
  [pc |-> "idle", attempt |-> 0, uploadErr |-> Nil, err |-> Nil, fetched |-> "none",
   fetchCalls |-> 0, uploadCalls |-> 0, okAt |-> 0, waits |-> <<>>, writes |-> <<>>]

\* the fields of the planner's summary log entry; r: the three lists the
\* state/existence loop built
AnalysisLog(found, r) ==
  [total_found |-> Len(found),
   with_state |-> Len(r.withState),
   without_state |-> Len(r.withoutState),
   already_migrated |-> Len(r.existing),
   to_migrate |-> Len(r.withState)]

\* mutant: an existence check that fails makes the planner fail
PlanWithCheckFatal(found, notFound, lookupErr, checkErr) ==
  IF checkErr # {}
  THEN /\ Return("errPlan")
       /\ UNCHANGED <<workspaces, diag, stats, tasks>>
  ELSE LET r == FilterByState(found, checkErr, 1)
       IN /\ workspaces' = r.withState
          /\ diag' = [planned |-> TRUE, notFound |-> notFound, resolved |-> found,
                      withoutState |-> r.withoutState, existing |-> r.existing,
                      checked |-> r.checked, lookupErrs |-> lookupErr, checkErrs |-> {},
                      analysis |-> AnalysisLog(found, r)]
          /\ stats' = [stats EXCEPT !.Total = Len(r.withState)]
          /\ tasks' = [t \in 1..Len(r.withState) |-> IdleTask]
          /\ IF Len(r.withState) = 0
             THEN Return("nil")
             ELSE /\ pc' = "loop"
                  /\ ret' = ret

\* mutant: an empty plan is reported as an error
PlanWithEmptyIsError(found, notFound, lookupErr, checkErr) ==
  LET r == FilterByState(found, checkErr, 1)
  IN /\ workspaces' = r.withState
     /\ diag' = [planned |-> TRUE, notFound |-> notFound, resolved |-> found,
                 withoutState |-> r.withoutState, existing |-> r.existing,
                 checked |-> r.checked, lookupErrs |-> lookupErr,
                 checkErrs |-> {k \in checkErr : StateExists(found[k].Name)},
                 analysis |-> AnalysisLog(found, r)]
     /\ stats' = [stats EXCEPT !.Total = Len(r.withState)]
     /\ tasks' = [t \in 1..Len(r.withState) |-> IdleTask]
     /\ IF Len(r.withState) = 0
        THEN Return("errPlan")
        ELSE /\ pc' = "loop"
             /\ ret' = ret

\* Migrate after the planner returned found/notFound: the state filter, then
\* stats.Total, then the early return on an empty plan
PlanWith(found, notFound, lookupErr, checkErr) ==
  LET r == FilterByState(found, checkErr, 1)
  IN /\ workspaces' = r.withState
     /\ diag' = [planned |-> TRUE, notFound |-> notFound, resolved |-> found,
                 withoutState |-> r.withoutState, existing |-> r.existing,
                 checked |-> r.checked, lookupErrs |-> lookupErr,
                 checkErrs |-> {k \in checkErr : StateExists(found[k].Name)},
                 analysis |-> AnalysisLog(found, r)]
     /\ stats' = [stats EXCEPT !.Total = Len(r.withState)]
     /\ tasks' = [t \in 1..Len(r.withState) |-> IdleTask]
     /\ IF Len(r.withState) = 0
        THEN Return("nil")
        ELSE /\ pc' = "loop"
             /\ ret' = ret

\* getWorkspacesToMigrate with a non-empty filter
PlanFiltered ==
  /\ pc = "plan"
  /\ Len(options.Projects) > 0
  /\ \E failing \in SUBSET (1..Len(options.Projects)) :
       LET r == ResolveFilter(options.Projects, failing, 1)
       IN \E checkErr \in SUBSET StateChecks(r.workspaces) :
            PlanWith(r.workspaces, r.notFound,
                     {k \in failing : Lookup(options.Projects[k]) # 0}, checkErr)
  /\ UNCHANGED <<exitCode, norm, prev, config, options, tfc, s3Before, s3, summary, i, wg, sem, mu, batches, pacing>>

\* getWorkspacesToMigrate without filter: ListWorkspaces, whose error is returned
PlanAll ==
  /\ pc = "plan"
  /\ Len(options.Projects) = 0
  /\ \/ /\ Return("errPlan")
        /\ UNCHANGED <<stats, workspaces, diag, tasks>>
     \/ \E checkErr \in SUBSET StateChecks(tfc) :
          PlanWith(tfc, <<>>, {}, checkErr)
  /\ UNCHANGED <<exitCode, norm, prev, config, options, tfc, s3Before, s3, summary, i, wg, sem, mu, batches, pacing>>

(***************************************************************************)
(* The batch scheduler: processBatches.                                    *)
(***************************************************************************)
\* mutant: the batch always runs to the end of the plan
BatchEndOfPlan(start, n, batchSize) == n

\* end := i + batchSize; if end > len(workspaces) { end = len(workspaces) }
BatchEnd(start, n, batchSize) ==
  IF start + batchSize > n THEN n ELSE start + batchSize

\* batchNumber := (i / batchSize) + 1
BatchNumber(start, batchSize) == (start \div batchSize) + 1

\* totalBatches := (len(workspaces) + batchSize - 1) / batchSize
TotalBatches(n, batchSize) == (n + batchSize - 1) \div batchSize

\* the Go slice s[lo:hi]
Slice(s, lo, hi) == SubSeq(s, lo + 1, hi)

\* one iteration of the loop up to processBatch having started its goroutines:
\* a fresh semaphore, WaitGroup and Mutex, wg.Add(1) and go func per workspace
StartBatch ==
  /\ pc = "loop"
  /\ i < Len(workspaces)
  /\ LET end == BatchEnd(i, Len(workspaces), config.BatchSize)
         batch == Slice(workspaces, i, end)
     IN /\ batches' = Append(batches,
                             [number |-> BatchNumber(i, config.BatchSize),
                              from |-> i, items |-> batch, err |-> "running"])
        /\ wg' = Len(batch)
        /\ tasks' = [t \in DOMAIN tasks |->
                       IF t \in (i + 1)..end THEN [tasks[t] EXCEPT !.pc = "sem"]
                       ELSE tasks[t]]
  /\ sem' = 0
  /\ mu' = 0
  /\ pc' = "wait"
  /\ UNCHANGED <<exitCode, norm, prev, config, options, tfc, s3Before, s3, ret, stats, summary, workspaces, diag, i,
                 pacing>>

\* i += batchSize
NextOffset(start, batchSize) == start + batchSize

\* mutant: processBatch returns without waiting for its goroutines
WaitReturnsAtOnce == TRUE

\* wg.Wait() returns
WaitReturns == wg = 0

\* mutant: the scheduler sleeps after the last batch too
NeedsPacingAlways(batchNumber, totalBatches) == batchNumber <= totalBatches

\* if batchNumber < totalBatches { time.Sleep(1 * time.Second) }
NeedsPacing(batchNumber, totalBatches) == batchNumber < totalBatches

\* mutant: processBatch hands a task's failure to the scheduler
processBatchReturnsTaskError(failedInBatch) ==
  IF failedInBatch > 0 THEN "errBatch" ELSE "nil"

\* processBatch's only return statement: return nil
processBatchReturn(failedInBatch) == "nil"

\* the tasks of the batch running that returned an error
FailedInBatch ==
  {t \in DOMAIN tasks :
     /\ t > i /\ t <= BatchEnd(i, Len(workspaces), config.BatchSize)
     /\ tasks[t].err # Nil}

\* processBatch returns after the join; the scheduler logs a non-nil result and
\* in either case goes on to the pacing sleep or to the next iteration
JoinBatch ==
  /\ pc = "wait"
  /\ WaitReturns
  /\ batches' = [batches EXCEPT ![Len(batches)].err =
                   processBatchReturn(Cardinality(FailedInBatch))]
  /\ IF NeedsPacing(BatchNumber(i, config.BatchSize),
                    TotalBatches(Len(workspaces), config.BatchSize))
     THEN /\ pc' = "sleep"
          /\ i' = i
     ELSE /\ pc' = "loop"
          /\ i' = NextOffset(i, config.BatchSize)
  /\ UNCHANGED <<exitCode, norm, prev, config, options, tfc, s3Before, s3, ret, stats, summary, workspaces, diag, wg,
                 sem, mu, tasks, pacing>>

\* time.Sleep(1 * time.Second), in seconds
PacingDelay == 1

\* the pacing sleep ends; i += batchSize
PacingSleep ==
  /\ pc = "sleep"
  /\ pacing' = Append(pacing, [after |-> BatchNumber(i, config.BatchSize),
                               delay |-> PacingDelay])
  /\ i' = NextOffset(i, config.BatchSize)
  /\ pc' = "loop"
  /\ UNCHANGED <<exitCode, norm, prev, config, options, tfc, s3Before, s3, ret, stats, summary, workspaces, diag, wg,
                 sem, mu, tasks, batches>>

\* the success rate logFinalStats prints with %.1f, in tenths of a percent
SuccessRate(st) == (st.Successful * 2000 + st.Total) \div (2 * st.Total)

\* what logFinalStats logs
logFinalStats(st, dryRun) ==
  [mode |-> IF dryRun THEN "Dry run" ELSE "Migracao",
   total |-> st.Total, successful |-> st.Successful, failed |-> st.Failed,
   failedItems |-> st.FailedItems,
   rate |-> IF st.Total > 0 THEN SuccessRate(st) ELSE 0]

\* mutant: the check of stats.Failed is missing
MigrateResultNil(st) == "nil"

\* Migrate's result after processBatches returned nil
MigrateResult(st) == IF st.Failed > 0 THEN "errFailures" ELSE "nil"

\* the loop ends, processBatches returns nil, Migrate logs the summary and returns
Finish ==
  /\ pc = "loop"
  /\ i >= Len(workspaces)
  /\ summary' = logFinalStats(stats, options.DryRun)
  /\ Return(MigrateResult(stats))
  /\ UNCHANGED <<exitCode, norm, prev, config, options, tfc, s3Before, s3, stats, workspaces, diag, i, wg, sem, mu,
                 tasks, batches, pacing>>

(***************************************************************************)
(* The command line: runMigrate hands Migrate's error to Execute.          *)
(***************************************************************************)
\* Execute: os.Exit(1) when the command returned an error, else the process
\* ends with status 0
ExitCode(value) == IF value = "nil" THEN 0 ELSE 1

\* runMigrate returns Migrate's error (wrapped) or nil; the process exits
Exit ==
  /\ pc = "done"
  /\ pc' = "exited"
  /\ exitCode' = ExitCode(ret)
  /\ UNCHANGED <<norm, prev, config, options, tfc, s3Before, s3, ret, stats, summary,
                 workspaces, diag, i, wg, sem, mu, tasks, batches, pacing>>

(***************************************************************************)
(* The command run again: the process has exited, the bucket is what the   *)
(* run left, the same configuration and flags are given.                   *)
(***************************************************************************)
\* what the run that returned planned and recorded: the names of its plan, of
\* the tasks that returned nil, of the tasks whose UploadState call returned
\* nil and of stats.FailedItems, the planner calls that failed, what
\* migrateWorkspace returned for each task, and the final MigrationStats
RunRecord ==
  [ran |-> TRUE,
   planned |-> diag.planned,
   dryRun |-> options.DryRun,
   plan |-> [t \in DOMAIN workspaces |-> workspaces[t].Name],
   succeeded |-> {workspaces[t].Name : t \in {u \in DOMAIN tasks : tasks[u].err = Nil}},
   uploaded |-> {workspaces[t].Name : t \in {u \in DOMAIN tasks : tasks[u].okAt > 0}},
   failed |-> {stats.FailedItems[k].WorkspaceName : k \in DOMAIN stats.FailedItems},
   lookupErrs |-> diag.lookupErrs,
   checkErrs |-> diag.checkErrs,
   outcomes |-> [t \in DOMAIN tasks |-> tasks[t].err],
   stats |-> stats]

\* migrate is invoked a second time: NewMigrator builds a fresh Migrator, Migrate
\* starts over with new MigrationStats
Rerun ==
  /\ pc = "exited"
  /\ ~prev.ran
  /\ Len(tfc) < MaxWs
  /\ config.BatchSize <= Len(tfc)
  /\ config.ConcurrentUploads <= Len(tfc)
  /\ Len(tfc) * (1 + config.RetryAttempts) <= MaxRerunCalls
  /\ prev' = RunRecord
  /\ s3Before' = s3
  /\ pc' = "validateTF"
  /\ ret' = "none"
  /\ stats' = ZeroStats
  /\ summary' = NoSummary
  /\ workspaces' = <<>>
  /\ diag' = NoDiag
  /\ i' = 0
  /\ wg' = 0
  /\ sem' = 0
  /\ mu' = 0
  /\ tasks' = <<>>
  /\ batches' = <<>>
  /\ pacing' = <<>>
  /\ exitCode' = -1
  /\ UNCHANGED <<norm, config, options, tfc, s3>>

(***************************************************************************)
(* The per-workspace task: the goroutine of processBatch around            *)
(* migrateWorkspace.                                                       *)
(***************************************************************************)
TaskFrame == UNCHANGED <<exitCode, norm, prev, config, options, tfc, s3Before, pc, ret, summary, workspaces, diag, i,
                         batches, pacing>>

\* mutant: the channel holds one token more than concurrent_uploads
SemHasRoomOneMore(held, capacity) == held <= capacity

\* sem <- struct{}{} can proceed: the channel's buffer is not full
SemHasRoom(held, capacity) == held < capacity

\* the goroutine gets its slot and calls migrateWorkspace, which calls
\* GetWorkspaceState
SemAcquire(t) ==
  /\ tasks[t].pc = "sem"
  /\ SemHasRoom(sem, config.ConcurrentUploads)
  /\ sem' = sem + 1
  /\ tasks' = [tasks EXCEPT ![t].pc = "fetch", ![t].fetchCalls = @ + 1]
  /\ UNCHANGED <<s3, stats, wg, mu>>
  /\ TaskFrame

\* after the loop: the error migrateWorkspace returns
LoopExit(tk) ==
  [tk EXCEPT !.pc = "lock",
             !.err = IF tk.uploadErr # Nil
                     THEN Err("upload", config.RetryAttempts, tk.uploadErr.op,
                              tk.uploadErr.at)
                     ELSE Nil]

\* for attempt := ...; attempt <= RetryAttempts: the next UploadState call
LoopHead(tk) ==
  IF tk.attempt <= config.RetryAttempts
  THEN [tk EXCEPT !.pc = "putState", !.uploadCalls = @ + 1, !.writes = <<>>]
  ELSE LoopExit(tk)

\* mutant: a constant backoff of one second
BackoffDelayConstant(attempt) == 1

\* delay := time.Duration(attempt) * time.Second, in seconds
BackoffDelay(attempt) == attempt * 1

\* if attempt < RetryAttempts { ...; time.Sleep(delay) }
SleepsAfter(attempt, retryAttempts) == attempt < retryAttempts

\* mutant: the break on success is missing, the loop goes on to the next attempt
UploadReturnedNoBreak(tk, e) ==
  LET tk1 == [tk EXCEPT !.uploadErr = e]
  IN IF e # Nil /\ SleepsAfter(tk.attempt, config.RetryAttempts)
     THEN [tk1 EXCEPT !.pc = "backoff",
                      !.waits = Append(@, BackoffDelay(tk.attempt))]
     ELSE LoopHead([tk1 EXCEPT !.attempt = @ + 1])

\* UploadState returned e to the retry loop
UploadReturned(tk, e) ==
  LET tk1 == [tk EXCEPT !.uploadErr = e]
  IN IF e = Nil THEN LoopExit(tk1)
     ELSE IF SleepsAfter(tk.attempt, config.RetryAttempts)
          THEN [tk1 EXCEPT !.pc = "backoff",
                           !.waits = Append(@, BackoffDelay(tk.attempt))]
          ELSE LoopHead([tk1 EXCEPT !.attempt = @ + 1])

\* mutant: the fetch error is not checked, the task goes on without a state
AfterFetchIgnoresError(tk, ok) ==
  LET tk1 == [tk EXCEPT !.fetched = IF ok THEN "ok" ELSE "err"]
  IN IF options.DryRun
     THEN [tk1 EXCEPT !.pc = "lock", !.err = Nil]
     ELSE LoopHead([tk1 EXCEPT !.attempt = 1])

\* mutant: the dry-run flag is not checked, a dry run uploads
AfterFetchIgnoresDryRun(tk, ok) ==
  IF ~ok
  THEN [tk EXCEPT !.fetched = "err", !.pc = "lock", !.err = Err("fetch", 0, "none", 0)]
  ELSE LoopHead([tk EXCEPT !.fetched = "ok", !.attempt = 1])

\* migrateWorkspace after GetWorkspaceState returned: an error ends the task,
\* a dry run ends it with success, otherwise the retry loop starts with attempt 1
AfterFetch(tk, ok) ==
  IF ~ok
  THEN [tk EXCEPT !.fetched = "err", !.pc = "lock", !.err = Err("fetch", 0, "none", 0)]
  ELSE IF options.DryRun
       THEN [tk EXCEPT !.fetched = "ok", !.pc = "lock", !.err = Nil]
       ELSE LoopHead([tk EXCEPT !.fetched = "ok", !.attempt = 1])

\* GetWorkspaceState returns
FetchReturns(t) ==
  /\ tasks[t].pc = "fetch"
  /\ \E ok \in BOOLEAN : tasks' = [tasks EXCEPT ![t] = AfterFetch(@, ok)]
  /\ UNCHANGED <<s3, stats, wg, sem, mu>>
  /\ TaskFrame

\* mutant: the workspace name is used as it is
StateNameKeepsSuffix(t) == workspaces[t].Name

\* stateName := removeEnvironmentSuffix(workspace.Name)
StateName(t) == removeEnvironmentSuffix(workspaces[t].Name)

\* mutant: the error of the first uploadFile is not checked, UploadState goes
\* on to the metadata
PutStateIgnoresError(t) ==
  /\ tasks[t].pc = "putState"
  /\ \/ /\ s3' = [s3 EXCEPT ![generateStateKey(Organization, StateName(t), stateFile)] =
                               Object(workspaces[t].ID)]
        /\ tasks' = [tasks EXCEPT ![t].pc = "putMeta",
                                   ![t].writes = Append(@, generateStateKey(Organization, StateName(t), stateFile))]
     \/ /\ s3' = s3
        /\ tasks' = [tasks EXCEPT ![t].pc = "putMeta"]
  /\ UNCHANGED <<stats, wg, sem, mu>>
  /\ TaskFrame

\* UploadState, first uploadFile (PutObject of the state object); writes is the
\* history of the keys the call in progress (or the last one) has written
PutState(t) ==
  /\ tasks[t].pc = "putState"
  /\ \/ /\ s3' = [s3 EXCEPT ![generateStateKey(Organization, StateName(t), stateFile)] =
                               Object(workspaces[t].ID)]
        /\ tasks' = [tasks EXCEPT ![t].pc = "putMeta",
                                   ![t].writes = Append(@, generateStateKey(Organization, StateName(t), stateFile))]
     \/ /\ s3' = s3
        /\ tasks' = [tasks EXCEPT ![t] =
                       UploadReturned(@, Err("put", 0, "state", @.attempt))]
  /\ UNCHANGED <<stats, wg, sem, mu>>
  /\ TaskFrame

\* UploadState, second uploadFile (PutObject of the metadata object), and return
PutMetadata(t) ==
  /\ tasks[t].pc = "putMeta"
  /\ \/ /\ s3' = [s3 EXCEPT ![generateStateKey(Organization, StateName(t), metadataFile)] =
                               Object(workspaces[t].ID)]
        /\ tasks' = [tasks EXCEPT ![t] =
                       UploadReturned([@ EXCEPT !.okAt = IF @ = 0 THEN tasks[t].attempt
                                                          ELSE @,
                                                !.writes = Append(@, generateStateKey(Organization, StateName(t), metadataFile))],
                                      Nil)]
     \/ /\ s3' = s3
        /\ tasks' = [tasks EXCEPT ![t] =
                       UploadReturned(@, Err("put", 0, "metadata", @.attempt))]
  /\ UNCHANGED <<stats, wg, sem, mu>>
  /\ TaskFrame

\* time.Sleep(delay) ends; attempt++ and the loop condition
BackoffEnds(t) ==
  /\ tasks[t].pc = "backoff"
  /\ tasks' = [tasks EXCEPT ![t] = LoopHead([@ EXCEPT !.attempt = @ + 1])]
  /\ UNCHANGED <<s3, stats, wg, sem, mu>>
  /\ TaskFrame

\* mu.Lock()
\* mutant: Lock returns although another goroutine holds the mutex
MuFreeAlways(holder) == TRUE

\* mu.Lock() returns only when no goroutine holds the mutex
MuFree(holder) == holder = 0

MuLock(t) ==
  /\ tasks[t].pc = "lock"
  /\ MuFree(mu)
  /\ mu' = t
  /\ tasks' = [tasks EXCEPT ![t].pc = "count"]
  /\ UNCHANGED <<s3, stats, wg, sem>>
  /\ TaskFrame

\* mutant: the task adds itself to the total as well
CountOutcomeAddsToTotal(st, err) ==
  IF err # Nil THEN [st EXCEPT !.Failed = @ + 1, !.Total = @ + 1]
  ELSE [st EXCEPT !.Successful = @ + 1, !.Total = @ + 1]

\* mutant: a failed task is not counted
CountOutcomeSuccessOnly(st, err) ==
  IF err # Nil THEN st
  ELSE [st EXCEPT !.Successful = @ + 1]

\* mutant: the else is missing, a failed task is counted as successful too
CountOutcomeNoElse(st, err) ==
  IF err # Nil THEN [st EXCEPT !.Failed = @ + 1, !.Successful = @ + 1]
  ELSE [st EXCEPT !.Successful = @ + 1]

\* stats.Failed++ or stats.Successful++
CountOutcome(st, err) ==
  IF err # Nil THEN [st EXCEPT !.Failed = @ + 1]
  ELSE [st EXCEPT !.Successful = @ + 1]

Count(t) ==
  /\ tasks[t].pc = "count"
  /\ stats' = CountOutcome(stats, tasks[t].err)
  /\ tasks' = [tasks EXCEPT ![t].pc = IF tasks[t].err # Nil THEN "append" ELSE "unlock"]
  /\ UNCHANGED <<s3, wg, sem, mu>>
  /\ TaskFrame

\* mutant: the failure list is overwritten, not extended
AppendFailureOverwrites(st, ws, err) ==
  [st EXCEPT !.FailedItems = <<[WorkspaceName |-> ws.Name, Error |-> err]>>]

\* stats.FailedItems = append(stats.FailedItems, FailedMigration{...})
AppendFailure(st, ws, err) ==
  [st EXCEPT !.FailedItems = Append(@, [WorkspaceName |-> ws.Name, Error |-> err])]

AppendFailed(t) ==
  /\ tasks[t].pc = "append"
  /\ stats' = AppendFailure(stats, workspaces[t], tasks[t].err)
  /\ tasks' = [tasks EXCEPT ![t].pc = "unlock"]
  /\ UNCHANGED <<s3, wg, sem, mu>>
  /\ TaskFrame

\* mutant: the goroutine goes on to its deferred calls with the mutex held
MuUnlockKeepsMutex(t) ==
  /\ tasks[t].pc = "unlock"
  /\ tasks' = [tasks EXCEPT ![t].pc = "release"]
  /\ UNCHANGED <<s3, stats, wg, sem, mu>>
  /\ TaskFrame

\* mu.Unlock()
MuUnlock(t) ==
  /\ tasks[t].pc = "unlock"
  /\ mu' = 0
  /\ tasks' = [tasks EXCEPT ![t].pc = "release"]
  /\ UNCHANGED <<s3, stats, wg, sem>>
  /\ TaskFrame

\* mutant: the deferred <-sem is missing, the slot stays taken
SemReleaseKeepsSlot(t) ==
  /\ tasks[t].pc = "release"
  /\ wg' = wg - 1
  /\ tasks' = [tasks EXCEPT ![t].pc = "done", ![t].attempt = 0, ![t].uploadErr = Nil]
  /\ UNCHANGED <<s3, stats, mu, sem>>
  /\ TaskFrame

\* the deferred calls, in their order: <-sem, then wg.Done(); the goroutine ends
\* and its locals (attempt, uploadErr) with it
SemRelease(t) ==
  /\ tasks[t].pc = "release"
  /\ sem' = sem - 1
  /\ wg' = wg - 1
  /\ tasks' = [tasks EXCEPT ![t].pc = "done", ![t].attempt = 0, ![t].uploadErr = Nil]
  /\ UNCHANGED <<s3, stats, mu>>
  /\ TaskFrame

(***************************************************************************)
(* The specification.                                                      *)
(***************************************************************************)
Next ==
  \/ ValidateTerraform
  \/ ValidateS3
  \/ PlanFiltered
  \/ PlanAll
  \/ StartBatch
  \/ JoinBatch
  \/ PacingSleep
  \/ Finish
  \/ Exit
  \/ Rerun
  \/ \E t \in DOMAIN tasks :
       \/ SemAcquire(t)
       \/ FetchReturns(t)
       \/ PutState(t)
       \/ PutMetadata(t)
       \/ BackoffEnds(t)
       \/ MuLock(t)
       \/ Count(t)
       \/ AppendFailed(t)
       \/ MuUnlock(t)
       \/ SemRelease(t)

Spec == Init /\ [][Next]_vars

(***************************************************************************)
(* One run of the command under the scheduling the Go runtime and the      *)
(* collaborators provide: a goroutine that can run is run, a call to the   *)
(* Terraform or S3 client returns, a sleep ends.                           *)
(***************************************************************************)
\* the steps of the goroutine that runs Migrate and the command around it
MigrateStep ==
  \/ ValidateTerraform
  \/ ValidateS3
  \/ PlanFiltered
  \/ PlanAll
  \/ StartBatch
  \/ JoinBatch
  \/ PacingSleep
  \/ Finish
  \/ Exit

\* the steps of the goroutine processBatch starts for position t of the plan
TaskStep(t) ==
  /\ t \in DOMAIN tasks
  /\ \/ SemAcquire(t)
     \/ FetchReturns(t)
     \/ PutState(t)
     \/ PutMetadata(t)
     \/ BackoffEnds(t)
     \/ MuLock(t)
     \/ Count(t)
     \/ AppendFailed(t)
     \/ MuUnlock(t)
     \/ SemRelease(t)

\* the runs explored for termination: inventories of at most MaxWs workspaces
\* whose fetch and upload calls stay within MaxUploads, filtered runs over an
\* inventory of at most one workspace
FairInit ==
  /\ Init
  /\ Len(tfc) <= MaxWs
  /\ Len(tfc) * (1 + config.RetryAttempts) <= MaxUploads
  /\ options.Projects # <<>> => Len(tfc) <= 1

FairNext ==
  \/ ValidateTerraform
  \/ ValidateS3
  \/ PlanFiltered
  \/ PlanAll
  \/ StartBatch
  \/ JoinBatch
  \/ PacingSleep
  \/ Finish
  \/ Exit
  \/ \E t \in DOMAIN tasks :
       \/ SemAcquire(t)
       \/ FetchReturns(t)
       \/ PutState(t)
       \/ PutMetadata(t)
       \/ BackoffEnds(t)
       \/ MuLock(t)
       \/ Count(t)
       \/ AppendFailed(t)
       \/ MuUnlock(t)
       \/ SemRelease(t)

\* weak fairness per goroutine: a blocked goroutine (full semaphore, held
\* mutex, pending join) is not owed a step, one that stays runnable is
FairSpec ==
  /\ FairInit
  /\ [][FairNext]_vars
  /\ WF_vars(MigrateStep)
  /\ \A t \in 1..MaxWs : WF_vars(TaskStep(t))

(***************************************************************************)
(* The name normalizer on its own.                                         *)
(***************************************************************************)
\* the stems of the names the normalizer is called on
Stems ==
  { <<>>,
    <<"a", "p", "p">>,
    <<"A", "p", "p">>,
    <<"m", "y", "-", "a", "p", "p">> }

\* their endings: each suffix of the list in lower, upper and mixed case, and
\* endings that are no suffix of the list, or hold one before the end
Tails ==
  { <<"-", "s", "t", "g">>,
    <<"-", "S", "T", "G">>,
    <<"-", "S", "t", "g">>,
    <<"-", "p", "r", "d">>,
    <<"-", "P", "R", "D">>,
    <<"-", "P", "r", "d">>,
    <<"-", "d", "e", "v">>,
    <<"-", "D", "E", "V">>,
    <<"-", "D", "e", "v">>,
    <<"-", "p", "r", "o", "d">>,
    <<"-", "P", "R", "O", "D">>,
    <<"-", "P", "r", "o", "d">>,
    <<"-", "s", "t", "a", "g", "i", "n", "g">>,
    <<"-", "S", "T", "A", "G", "I", "N", "G">>,
    <<"-", "S", "t", "a", "g", "i", "n", "g">>,
    <<"-", "p", "r", "o", "d", "u", "c", "t", "i", "o", "n">>,
    <<"-", "P", "R", "O", "D", "U", "C", "T", "I", "O", "N">>,
    <<"-", "P", "r", "o", "d", "u", "c", "t", "i", "o", "n">>,
    <<"-", "t", "e", "s", "t">>,
    <<"-", "T", "E", "S", "T">>,
    <<"-", "T", "e", "s", "t">>,
    <<"-", "q", "a">>,
    <<"-", "Q", "A">>,
    <<"-", "Q", "a">>,
    <<"-", "u", "a", "t">>,
    <<"-", "U", "A", "T">>,
    <<"-", "U", "a", "t">>,
    <<>>,
    <<"p", "r", "o", "d">>,
    <<"-", "p", "r", "o", "d", "x">>,
    <<"-", "p", "r", "o">>,
    <<"_", "p", "r", "o", "d">>,
    <<"-", "p", "r", "o", "d", "-">>,
    <<"-", "p", "r", "e", "p", "r", "o", "d">>,
    <<"-", "s", "t", "a", "g", "e">>,
    <<"-", "d", "e", "v", "e", "l", "o", "p", "m", "e", "n", "t">>,
    <<"-", "d", "e", "v", "-", "t", "e", "s", "t">>,
    <<"-", "p", "r", "o", "d", "-", "s", "t", "g">>,
    <<"-", "q", "a", "2">>,
    <<"-", "p", "r", "d", "-", "x">>,
    <<"-", "U", "a", "t", "-", "P", "r", "d">> }

Names == {stem \o tail : stem \in Stems, tail \in Tails}

\* the orchestration variables while only the normalizer is looked at
NoRun ==
  /\ exitCode = -1
  /\ prev = NoPrev
  /\ config = SmallConfig
  /\ options = [DryRun |-> FALSE, Projects |-> <<>>]
  /\ tfc = <<>>
  /\ s3 = EmptyBucket
  /\ s3Before = s3
  /\ pc = "validateTF"
  /\ ret = "none"
  /\ stats = ZeroStats
  /\ summary = NoSummary
  /\ workspaces = <<>>
  /\ diag = NoDiag
  /\ i = 0
  /\ wg = 0
  /\ sem = 0
  /\ mu = 0
  /\ tasks = <<>>
  /\ batches = <<>>
  /\ pacing = <<>>

NormInit ==
  /\ norm \in {[called |-> FALSE, name |-> name, out |-> <<>>] : name \in Names}
  /\ NoRun

\* cleanName := m.removeEnvironmentSuffix(ws.Name)
Normalize ==
  /\ ~norm.called
  /\ norm' = [norm EXCEPT !.called = TRUE, !.out = removeEnvironmentSuffix(norm.name)]
  /\ UNCHANGED <<exitCode, prev, config, options, tfc, s3Before, s3, pc, ret, stats, summary,
                 workspaces, diag, i, wg, sem, mu, tasks, batches, pacing>>

NormNext == Normalize

NormSpec == NormInit /\ [][NormNext]_vars

(***************************************************************************)
(* Properties.                                                             *)
(***************************************************************************)
TaskIds == DOMAIN tasks

\* migrateWorkspace has returned for task t (its outcome is known)
Returned(t) == tasks[t].pc \in {"lock", "count", "append", "unlock", "release", "done"}

\* task t holds a slot of the semaphore
HoldsSlot(t) ==
  tasks[t].pc \in {"fetch", "putState", "putMeta", "backoff", "lock", "count", "append",
                   "unlock", "release"}

\* task t is inside migrateWorkspace
InMigrate(t) == tasks[t].pc \in {"fetch", "putState", "putMeta", "backoff"}

\* task t has an UploadState call in flight
InUpload(t) == tasks[t].pc \in {"putState", "putMeta"}

\* task t has been started
Started(t) == tasks[t].pc # "idle"

\* batch processing is over: processBatches' loop is at its exit, or Migrate
\* returned after planning
BatchesOver ==
  /\ diag.planned
  /\ \/ pc \in {"done", "exited"}
     \/ pc = "loop" /\ i >= Len(workspaces)

\* the number of batches a plan of n workspaces needs, by definition of ceil(n/B)
CeilDiv(n, b) == CHOOSE k \in 0..n : k * b >= n /\ (k - 1) * b < n

\* the batch (1-based) position t of the plan belongs to
BatchOf(t) == ((t - 1) \div config.BatchSize) + 1

\* C1: when a run reaches the end of batch processing, Successful + Failed =
\* Total, and every planned workspace has exactly one recorded outcome: its
\* task has finished, the successes counted are the tasks that returned nil and
\* the failures counted are the tasks that returned an error.
C1_Conservation ==
  BatchesOver =>
    /\ stats.Successful + stats.Failed = stats.Total
    /\ stats.Total = Len(workspaces)
    /\ \A t \in TaskIds : tasks[t].pc = "done"
    /\ stats.Successful = Cardinality({t \in TaskIds : tasks[t].err = Nil})
    /\ stats.Failed = Cardinality({t \in TaskIds : tasks[t].err # Nil})

\* a run of two batches over, with fetch failures, upload failures and successes
C1_Witness ==
  /\ BatchesOver
  /\ Len(batches) >= 2
  /\ stats.Successful >= 1
  /\ \E t \in TaskIds : tasks[t].err.kind = "fetch"
  /\ \E t \in TaskIds : tasks[t].err.kind = "upload"

\* C2: in every reachable state of a run, Successful + Failed <= Total.
C2_CountedAtMostTotal ==
  diag.planned => stats.Successful + stats.Failed <= stats.Total

\* mid-batch: one outcome counted, one task inside the stats section, one
\* still uploading
C2_Witness ==
  /\ stats.Successful + stats.Failed >= 1
  /\ stats.Successful + stats.Failed < stats.Total
  /\ \E t \in TaskIds : tasks[t].pc = "count"
  /\ \E t \in TaskIds : InUpload(t)

\* C3: at every moment the tasks holding an admission slot, the tasks inside
\* migrateWorkspace and the UploadState calls in flight are each at most
\* concurrent_uploads.
C3_ConcurrencyBound ==
  /\ Cardinality({t \in TaskIds : HoldsSlot(t)}) <= config.ConcurrentUploads
  /\ Cardinality({t \in TaskIds : InMigrate(t)}) <= config.ConcurrentUploads
  /\ Cardinality({t \in TaskIds : InUpload(t)}) <= config.ConcurrentUploads

\* the bound is reached: concurrent_uploads uploads in flight while a third
\* task of the batch waits for a slot
C3_Witness ==
  /\ config.ConcurrentUploads = 2
  /\ Cardinality({t \in TaskIds : InUpload(t)}) = 2
  /\ \E t \in TaskIds : tasks[t].pc = "sem"

\* C4: when a task of a batch has started (it waits for a slot, or has made a
\* fetch or upload call), every task of every earlier batch has finished and
\* its outcome is counted in stats.
C4_BatchesInOrder ==
  \A u \in TaskIds :
    (Started(u) \/ tasks[u].fetchCalls > 0 \/ tasks[u].uploadCalls > 0) =>
      /\ \A t \in TaskIds : BatchOf(t) < BatchOf(u) => tasks[t].pc = "done"
      /\ stats.Successful + stats.Failed >= (BatchOf(u) - 1) * config.BatchSize

\* a task of the second batch is fetching
C4_Witness ==
  \E u \in TaskIds : BatchOf(u) = 2 /\ tasks[u].pc = "fetch"

\* C5: the batches handed to processBatch are contiguous, non-overlapping
\* slices of the plan, each of exactly batch_size workspaces except possibly
\* the last, which has between 1 and batch_size; when batch processing is
\* over there are ceil(n / batch_size) of them and every position of the plan
\* is in one of them.
C5_BatchPartition ==
  LET n == Len(workspaces)
      B == config.BatchSize
  IN /\ \A k \in 1..Len(batches) :
          /\ batches[k].number = k
          /\ batches[k].from = (k - 1) * B
          /\ Len(batches[k].items) >= 1
          /\ Len(batches[k].items) <= B
          /\ batches[k].from + Len(batches[k].items) <= n
          /\ batches[k].items =
               SubSeq(workspaces, batches[k].from + 1,
                      batches[k].from + Len(batches[k].items))
          /\ (k < Len(batches) \/ batches[k].from + B <= n) =>
               Len(batches[k].items) = B
     /\ BatchesOver =>
          /\ Len(batches) = CeilDiv(n, B)
          /\ Len(batches) = TotalBatches(n, B)
          /\ \A t \in 1..n :
               \E k \in 1..Len(batches) :
                 /\ batches[k].from < t
                 /\ t <= batches[k].from + Len(batches[k].items)

\* seven workspaces in batches of three: sizes 3, 3, 1
C5_Witness ==
  /\ BatchesOver
  /\ Len(workspaces) = 7
  /\ config.BatchSize = 3
  /\ [k \in 1..Len(batches) |-> Len(batches[k].items)] = <<3, 3, 1>>

\* C6: the scheduler sleeps 1 time unit after batch k exactly when another
\* batch follows: the sleeps recorded are those after batches 1, 2, ... in
\* order, one per batch already followed by a loop iteration, none after the
\* last batch (N batches: N - 1 sleeps), and while the scheduler sleeps every
\* task of the batches so far has finished and no task of a later batch has
\* started.
C6_PacingBetweenBatches ==
  LET n == Len(workspaces)
      B == config.BatchSize
  IN /\ \A k \in 1..Len(pacing) : pacing[k].after = k /\ pacing[k].delay = 1
     /\ Len(batches) = 0 => pacing = <<>>
     /\ Len(batches) >= 1 =>
          Len(pacing) = IF pc = "loop" /\ i < n THEN Len(batches) ELSE Len(batches) - 1
     /\ (BatchesOver /\ n > 0) => Len(pacing) = CeilDiv(n, B) - 1
     /\ pc = "sleep" =>
          /\ Len(batches) < CeilDiv(n, B)
          /\ \A t \in TaskIds :
               IF BatchOf(t) <= Len(batches) THEN tasks[t].pc = "done"
               ELSE tasks[t].pc = "idle" /\ tasks[t].fetchCalls = 0

\* four batches, three sleeps
C6_Witness ==
  /\ BatchesOver
  /\ Len(batches) = 4
  /\ Len(pacing) = 3

\* the backoff delays 1, 2, ..., n
LinearDelays(n) == [k \in 1..n |-> k]

\* C7: a non-simulated task with retry_attempts = R >= 1 whose uploads all
\* failed has made exactly R UploadState calls, has waited k time units after
\* failed attempt k for k = 1..R-1 and not after attempt R, and returns a
\* failure carrying the attempt count R and the error of the last (R-th) call.
C7_RetryExhaustion ==
  /\ \A t \in TaskIds :
       (/\ Returned(t)
        /\ tasks[t].fetched = "ok"
        /\ ~options.DryRun
        /\ config.RetryAttempts >= 1
        /\ tasks[t].okAt = 0) =>
         /\ tasks[t].uploadCalls = config.RetryAttempts
         /\ tasks[t].waits = LinearDelays(config.RetryAttempts - 1)
         /\ tasks[t].err.kind = "upload"
         /\ tasks[t].err.attempts = config.RetryAttempts
         /\ tasks[t].err.at = config.RetryAttempts
         /\ tasks[t].err.op \in {"state", "metadata"}
  /\ \A t \in TaskIds :
       tasks[t].pc = "backoff" =>
         /\ tasks[t].attempt < config.RetryAttempts
         /\ tasks[t].waits = LinearDelays(tasks[t].attempt)

\* retry_attempts = 3, three failed uploads, waits of 1 and 2, failure recorded
C7_Witness ==
  /\ config.RetryAttempts = 3
  /\ \E t \in TaskIds :
       /\ tasks[t].pc = "done"
       /\ tasks[t].err.kind = "upload"
       /\ tasks[t].uploadCalls = 3
       /\ tasks[t].waits = <<1, 2>>
       /\ \E k \in 1..Len(stats.FailedItems) :
            /\ stats.FailedItems[k].WorkspaceName = workspaces[t].Name
            /\ stats.FailedItems[k].Error.attempts = 3

\* C8: once UploadState has returned ok for the first time, on attempt k, the
\* task has made exactly k calls (k <= retry_attempts) and makes no more, has
\* slept after each of the k - 1 failed attempts, and returns success.
C8_SuccessEndsRetries ==
  \A t \in TaskIds :
    tasks[t].okAt > 0 =>
      /\ tasks[t].okAt <= config.RetryAttempts
      /\ tasks[t].uploadCalls = tasks[t].okAt
      /\ tasks[t].waits = LinearDelays(tasks[t].okAt - 1)
      /\ Returned(t)
      /\ tasks[t].err = Nil

\* success on the third attempt after two failures, counted as successful
C8_Witness ==
  \E t \in TaskIds :
    /\ tasks[t].okAt = 3
    /\ tasks[t].pc = "done"
    /\ stats.Successful >= 1

\* the entries of stats.FailedItems for workspace name that hold the error err
FailedEntries(name, err) ==
  {k \in 1..Len(stats.FailedItems) :
     /\ stats.FailedItems[k].WorkspaceName = name
     /\ stats.FailedItems[k].Error = err}

\* C9: GetWorkspaceState is called at most once per task; a task whose fetch
\* failed has made no UploadState call and returns the fetch error; and
\* stats.FailedItems holds exactly one entry, with the workspace name and the
\* error, for every such task that has recorded its outcome.
C9_FetchFailureIsFinal ==
  /\ \A t \in TaskIds :
       /\ tasks[t].fetchCalls <= 1
       /\ tasks[t].fetched = "err" =>
            /\ tasks[t].fetchCalls = 1
            /\ tasks[t].uploadCalls = 0
            /\ ~InUpload(t)
            /\ Returned(t)
            /\ tasks[t].err = Err("fetch", 0, "none", 0)
  /\ \A t \in TaskIds :
       Cardinality(FailedEntries(workspaces[t].Name, Err("fetch", 0, "none", 0))) =
         Cardinality({u \in TaskIds :
                        /\ workspaces[u].Name = workspaces[t].Name
                        /\ tasks[u].fetched = "err"
                        /\ tasks[u].pc \in {"unlock", "release", "done"}})
  /\ stats.Failed >=
       Cardinality({u \in TaskIds :
                      tasks[u].fetched = "err" /\ tasks[u].pc \in {"append", "unlock",
                                                                   "release", "done"}})

\* a finished run in which one fetch failed and another workspace was uploaded
C9_Witness ==
  /\ BatchesOver
  /\ ~options.DryRun
  /\ \E t \in TaskIds :
       /\ tasks[t].fetched = "err"
       /\ Cardinality(FailedEntries(workspaces[t].Name, tasks[t].err)) = 1
  /\ \E t \in TaskIds : tasks[t].okAt > 0

\* C10: in a dry run UploadState is never called, the bucket stays as the run
\* found it, and stats.Successful counts exactly the tasks whose fetch
\* succeeded and that have been through the stats section.
C10_DryRunPurity ==
  options.DryRun =>
    /\ \A t \in TaskIds :
         /\ tasks[t].uploadCalls = 0
         /\ ~InUpload(t)
         /\ tasks[t].pc # "backoff"
    /\ s3 = s3Before
    /\ stats.Successful =
         Cardinality({t \in TaskIds :
                        tasks[t].fetched = "ok" /\ tasks[t].pc \in {"unlock", "release",
                                                                    "done"}})
    /\ BatchesOver =>
         stats.Successful = Cardinality({t \in TaskIds : tasks[t].fetched = "ok"})

\* a finished dry run over a bucket that held a migrated state, with
\* successful and failed fetches
C10_Witness ==
  /\ options.DryRun
  /\ BatchesOver
  /\ s3 # EmptyBucket
  /\ stats.Successful >= 2
  /\ stats.Failed >= 1

\* the elements of a sequence
Range(seq) == {seq[k] : k \in DOMAIN seq}

\* the second run has planned
SecondPlanned == prev.ran /\ diag.planned

\* C11 as stated: a second run migrates zero workspaces, every workspace of the
\* first run's plan being classified as already migrated by its planner.
C11_SecondRunMigratesNothing ==
  (SecondPlanned /\ prev.planned) =>
    /\ Len(workspaces) = 0
    /\ Range(prev.plan) \subseteq Range(diag.existing)

\* C11, amended: a workspace whose upload succeeded in the first run is not
\* planned by a second run whose existence checks answer, and is classified
\* as already migrated when that run resolves it; and when the first run
\* uploaded every workspace of its plan and no lookup of an existing workspace
\* failed in either run, the second run's plan is empty.
C11_IdempotentAfterSuccess ==
  SecondPlanned =>
    /\ diag.checkErrs = {} =>
         /\ \A k \in DOMAIN workspaces : workspaces[k].Name \notin prev.uploaded
         /\ \A k \in DOMAIN diag.resolved :
              diag.resolved[k].Name \in prev.uploaded =>
                diag.resolved[k].Name \in Range(diag.existing)
    /\ (/\ prev.planned
        /\ Range(prev.plan) \subseteq prev.uploaded
        /\ prev.lookupErrs = {}
        /\ diag.lookupErrs = {}
        /\ diag.checkErrs = {}) =>
         /\ Len(workspaces) = 0
         /\ Range(prev.plan) \subseteq Range(diag.existing)

\* a first run uploaded its two workspaces; the second run classifies both as
\* already migrated and plans nothing
C11_Witness ==
  /\ SecondPlanned
  /\ Len(prev.plan) = 2
  /\ Range(prev.plan) \subseteq prev.uploaded
  /\ Len(diag.existing) = 2
  /\ Len(workspaces) = 0
  /\ ret = "nil"

\* the names of the plan
Planned == {workspaces[k].Name : k \in DOMAIN workspaces}

\* C12: after a run with failures, the next run skips the workspaces whose
\* upload succeeded and plans again every workspace recorded as failed (when
\* its own lookups and existence checks answer); a workspace recorded as
\* failed is never classified as already migrated by the next run.
C12_RerunRetriesFailed ==
  SecondPlanned =>
    /\ \A name \in prev.failed : name \notin Range(diag.existing)
    /\ (diag.lookupErrs = {} /\ diag.checkErrs = {}) =>
         /\ \A name \in prev.uploaded :
              name \in Range(diag.existing) /\ name \notin Planned
         /\ \A name \in prev.failed : name \in Planned

\* the elements of seq at the positions in keep, in order, up to position n
RECURSIVE Pick(_, _, _)
Pick(seq, keep, n) ==
  IF n = 0 THEN <<>>
  ELSE Pick(seq, keep, n - 1) \o (IF n \in keep THEN <<seq[n]>> ELSE <<>>)

\* sub is seq with some elements left out
IsSubsequence(sub, seq) ==
  \E keep \in SUBSET DOMAIN seq : sub = Pick(seq, keep, Len(seq))

\* the filter positions whose lookup did not return a workspace
Unresolved ==
  {k \in DOMAIN options.Projects :
     (\A w \in DOMAIN tfc : tfc[w].Name # options.Projects[k]) \/ k \in diag.lookupErrs}

\* C13: with a non-empty filter the planner never fails; the not-found
\* diagnostic is exactly the names whose lookup did not resolve, in filter
\* order; the resolved workspaces are the workspaces of the other names, in
\* filter order; and the plan is a subsequence of them.
C13_FilterResolution ==
  Len(options.Projects) > 0 =>
    /\ ret # "errPlan"
    /\ diag.planned =>
         LET filter == options.Projects
             names == [k \in DOMAIN diag.resolved |-> diag.resolved[k].Name]
         IN /\ diag.notFound = Pick(filter, Unresolved, Len(filter))
            /\ names = Pick(filter, DOMAIN filter \ Unresolved, Len(filter))
            /\ \A k \in DOMAIN diag.resolved :
                 \E w \in DOMAIN tfc : tfc[w] = diag.resolved[k]
            /\ IsSubsequence(workspaces, diag.resolved)

\* filter [a-prd, z, b] over an organization without z: the plan is
\* [a-prd, b] and the diagnostic is [z]
C13_Witness ==
  /\ options.Projects = <<Catalogue[1], MissingName, Catalogue[3]>>
  /\ diag.planned
  /\ diag.notFound = <<MissingName>>
  /\ [k \in DOMAIN workspaces |-> workspaces[k].Name] = <<Catalogue[1], Catalogue[3]>>
  /\ pc = "loop"

\* C14: a workspace without state is never in the plan, and no task, hence no
\* GetWorkspaceState or UploadState call and no object written, exists for it;
\* the planner lists it in the without-state diagnostic when it resolved it.
C14_NoStateExcluded ==
  /\ \A k \in DOMAIN workspaces : workspaces[k].HasState
  /\ DOMAIN tasks \subseteq DOMAIN workspaces
  /\ \A w \in DOMAIN tfc :
       ~tfc[w].HasState =>
         /\ tfc[w].Name \notin Planned
         /\ \A t \in TaskIds : workspaces[t].ID # tfc[w].ID
         /\ \A key \in DOMAIN s3 : s3[key].ws # tfc[w].ID
         /\ tfc[w].Name \notin Range(diag.checked)
         /\ tfc[w] \in Range(diag.resolved) => tfc[w].Name \in Range(diag.withoutState)

\* an unfiltered run over three workspaces, the second without state: it is
\* reported, the other two are migrated
C14_Witness ==
  /\ options.Projects = <<>>
  /\ ~options.DryRun
  /\ BatchesOver
  /\ Len(tfc) = 3
  /\ ~tfc[2].HasState
  /\ diag.withoutState = <<tfc[2].Name>>
  /\ Len(workspaces) = 2
  /\ stats.Successful = 2

\* the destination of every name of the catalogue, computed once
Destination == [name \in Range(Catalogue) |-> removeEnvironmentSuffix(name)]

\* the keys UploadState derives for a workspace name: the normalized name
\* under the organization, for the state file and for the metadata file
DestinationKey ==
  [name \in Range(Catalogue) |->
     [file \in {stateFile, metadataFile} |->
        generateStateKey(Organization, Destination[name], file)]]

\* the state object of workspace name's destination was in the bucket when the
\* run started (the planner runs before any upload of the run)
ExistedAtPlanning(name) == s3Before[DestinationKey[name][stateFile]].present

\* C15 as stated: a resolved workspace with state whose destination holds a
\* state object when the planner checks it is reported as already migrated
\* and is not in the plan.
C15_ExistingExcluded ==
  diag.planned =>
    \A k \in DOMAIN diag.resolved :
      (diag.resolved[k].HasState /\ ExistedAtPlanning(diag.resolved[k].Name)) =>
        /\ diag.resolved[k].Name \in Range(diag.existing)
        /\ diag.resolved[k].Name \notin Planned

\* C15, amended: a resolved workspace with state whose existence check
\* answers that the destination holds a state object is reported as already
\* migrated and gets no task (no fetch, no upload), so its object stays as it
\* was unless a planned workspace shares the destination; one whose check
\* fails is planned like a workspace whose destination is empty.
C15_ExistingExcludedWhenCheckAnswers ==
  diag.planned =>
    /\ DOMAIN tasks = DOMAIN workspaces
    /\ Len(diag.existing) + Len(workspaces) = Cardinality(StateChecks(diag.resolved))
    /\ \A k \in StateChecks(diag.resolved) :
         LET ws == diag.resolved[k]
             key == DestinationKey[ws.Name][stateFile]
         IN IF ExistedAtPlanning(ws.Name) /\ k \notin diag.checkErrs
            THEN /\ ws.Name \in Range(diag.existing)
                 /\ (\A j \in diag.checkErrs : diag.resolved[j].Name # ws.Name) =>
                      ws.Name \notin Planned
                 /\ (\A t \in DOMAIN workspaces :
                       Destination[workspaces[t].Name] # Destination[ws.Name]) =>
                      s3[key] = s3Before[key]
            ELSE ws \in Range(workspaces)

\* destination b was migrated earlier: the run reports b as already migrated,
\* migrates the other two workspaces and leaves b's object as it was
C15_Witness ==
  /\ BatchesOver
  /\ ~options.DryRun
  /\ Len(tfc) = 3
  /\ diag.existing = <<Catalogue[3]>>
  /\ Len(workspaces) = 2
  /\ stats.Successful = 2
  /\ s3[generateStateKey(Organization, Catalogue[3], stateFile)] = Object(0)

\* two characters are equal up to case
SameFold(c, d) ==
  \/ c = d
  \/ \E k \in DOMAIN UpperCase : {c, d} = {UpperCase[k], LowerCase[k]}

\* name ends with suffix, case-insensitively
EndsWithFold(name, suffix) ==
  /\ Len(name) >= Len(suffix)
  /\ \A j \in 1..Len(suffix) : SameFold(name[Len(name) - Len(suffix) + j], suffix[j])

\* the suffixes of the list that match the end of name
Matching(name) == {k \in DOMAIN envSuffixes : EndsWithFold(name, envSuffixes[k])}

\* C16: normalize is total (every call returns a prefix of its argument) and
\* touches no state; "app-prod" and "app-STAGING" give "app", the kept part
\* keeps its case, and a name that ends with no suffix of the list is
\* returned unchanged.
C16_NormalizeExamples ==
  /\ NoRun
  /\ norm.called =>
       /\ Len(norm.out) <= Len(norm.name)
       /\ norm.out = SubSeq(norm.name, 1, Len(norm.out))
       /\ norm.name = <<"a", "p", "p", "-", "p", "r", "o", "d">> => norm.out = <<"a", "p", "p">>
       /\ norm.name = <<"a", "p", "p", "-", "S", "T", "A", "G", "I", "N", "G">> => norm.out = <<"a", "p", "p">>
       /\ norm.name = <<"A", "p", "p", "-", "P", "r", "o", "d">> => norm.out = <<"A", "p", "p">>
       /\ norm.name = <<"a", "p", "p">> => norm.out = <<"a", "p", "p">>
       /\ Matching(norm.name) = {} => norm.out = norm.name

\* normalize was called on "app-STAGING" and returned "app"
C16_Witness ==
  /\ norm.called
  /\ norm.name = <<"a", "p", "p", "-", "S", "T", "A", "G", "I", "N", "G">>
  /\ norm.out = <<"a", "p", "p">>

\* the suffixes the list is documented to hold
ListedSuffixes ==
  { <<"-", "s", "t", "g">>,
    <<"-", "p", "r", "d">>,
    <<"-", "d", "e", "v">>,
    <<"-", "p", "r", "o", "d">>,
    <<"-", "s", "t", "a", "g", "i", "n", "g">>,
    <<"-", "p", "r", "o", "d", "u", "c", "t", "i", "o", "n">>,
    <<"-", "t", "e", "s", "t">>,
    <<"-", "q", "a">>,
    <<"-", "u", "a", "t">> }

\* name without the longest suffix of the list that matches its end
LongestMatchRemoved(name) ==
  IF Matching(name) = {} THEN name
  ELSE LET k == CHOOSE m \in Matching(name) :
                  \A j \in Matching(name) : Len(envSuffixes[m]) >= Len(envSuffixes[j])
       IN SubSeq(name, 1, Len(name) - Len(envSuffixes[k]))

\* C17: the list holds the nine documented suffixes; for every name the
\* first-match scan returns the name without the longest suffix of the list
\* that matches its end case-insensitively, and returns the name unchanged
\* exactly when no suffix of the list matches.
C17_FirstMatchIsLongestMatch ==
  /\ Range(envSuffixes) = ListedSuffixes
  /\ norm.called =>
       /\ norm.out = LongestMatchRemoved(norm.name)
       /\ norm.out = norm.name <=> Matching(norm.name) = {}

\* normalize was called on "App-Production", which "-production" matches, and
\* returned "App"
C17_Witness ==
  /\ norm.called
  /\ norm.name = <<"A", "p", "p", "-", "P", "r", "o", "d", "u", "c", "t", "i", "o", "n">>
  /\ Matching(norm.name) # {}
  /\ norm.out = <<"A", "p", "p">>

\* C18: a run that got past validation and planning returns an error exactly
\* when stats.Failed > 0 at its end, and the process exits with a non-zero
\* status exactly when Migrate returned an error.
C18_ErrorIffFailed ==
  /\ (diag.planned /\ pc \in {"done", "exited"}) =>
       /\ ret \in {"nil", "errFailures"}
       /\ ret = "errFailures" <=> stats.Failed > 0
  /\ pc = "exited" => (exitCode # 0 <=> ret # "nil")
  /\ pc # "exited" => exitCode = -1

\* a run with one migrated and one failed workspace has exited with status 1
C18_Witness ==
  /\ pc = "exited"
  /\ diag.planned
  /\ stats.Successful >= 1
  /\ stats.Failed >= 1
  /\ ret = "errFailures"
  /\ exitCode = 1

\* Migrate returned a validation error or the planner's error
Aborted == ret \in {"errValidateTerraform", "errValidateS3", "errPlan"}

\* C19: when a connection validation or the inventory fetch fails, Migrate
\* returns that error at once: the planner has returned no plan and made no
\* existence check, no task exists (no fetch, no upload), the bucket is
\* untouched, no batch was started, nothing was counted and no summary was
\* logged; the process exits with a non-zero status.
C19_AbortBeforeWork ==
  /\ Aborted =>
       /\ pc \in {"done", "exited"}
       /\ diag = NoDiag
       /\ workspaces = <<>>
       /\ tasks = <<>>
       /\ s3 = s3Before
       /\ batches = <<>>
       /\ pacing = <<>>
       /\ stats = ZeroStats
       /\ summary = NoSummary
       /\ pc = "exited" => exitCode = 1
  /\ (pc \in {"validateTF", "validateS3", "plan"} \/ Aborted) =>
       (diag.checked = <<>> /\ tasks = <<>> /\ s3 = s3Before)

\* the inventory fetch failed for an organization with workspaces to migrate;
\* the process has exited
C19_Witness ==
  /\ ret = "errPlan"
  /\ pc = "exited"
  /\ Len(tfc) >= 2
  /\ \A k \in DOMAIN tfc : tfc[k].HasState
  /\ ~prev.ran

\* C20: the planner fails exactly when the inventory call or a by-name lookup
\* call itself fails: it returns an error only on such a failure, and when
\* it has returned a plan no lookup call of an existing workspace has failed.
C20_PlannerFailsIffCallFails ==
  /\ ret = "errPlan" => ~diag.planned
  /\ diag.planned => (ret # "errPlan" /\ diag.lookupErrs = {})

\* C21: a workspace with state whose existence query failed although its
\* destination holds a state object is in the plan and gets a task; the
\* planned workspaces whose destination existed are exactly those whose query
\* failed; and the planner of a filtered run, which makes no inventory call,
\* never fails.
C21_CheckErrorFailsOpen ==
  /\ diag.planned =>
       /\ \A k \in diag.checkErrs :
            /\ diag.resolved[k].HasState
            /\ \E t \in DOMAIN tasks : workspaces[t] = diag.resolved[k]
       /\ Cardinality({t \in DOMAIN workspaces : ExistedAtPlanning(workspaces[t].Name)}) =
            Cardinality(diag.checkErrs)
  /\ ret = "errPlan" => Len(options.Projects) = 0

\* the existence query for b failed while b's destination held a state: b was
\* planned and migrated again, its object overwritten
C21_Witness ==
  /\ pc = "exited"
  /\ diag.checkErrs # {}
  /\ s3Before[generateStateKey(Organization, Catalogue[3], stateFile)] = Object(0)
  /\ s3[generateStateKey(Organization, Catalogue[3], stateFile)] = Object(3)
  /\ \E t \in DOMAIN tasks : workspaces[t].Name = Catalogue[3] /\ tasks[t].okAt > 0

\* C22: when Migrate has returned after validation and planning succeeded,
\* the final summary has been logged, whatever the size of the plan.
C22_SummaryAlwaysEmitted ==
  (diag.planned /\ pc \in {"done", "exited"}) => summary.mode # "none"


\* C23: no workspace occupies two positions of the migration set, so no
\* workspace gets more than one task in a run.
C23_PlannedAtMostOnce ==
  \A t, u \in DOMAIN workspaces :
    workspaces[t].ID = workspaces[u].ID => t = u


\* the FailedItems entry a failed task appends
FailureOf(t) == [WorkspaceName |-> workspaces[t].Name, Error |-> tasks[t].err]

\* the run of the command before this one and this one planned the same
\* workspaces in the same order and every task got the same result from its
\* collaborators, and both have returned
SameRunTwice ==
  /\ prev.ran /\ prev.planned /\ diag.planned
  /\ pc = "exited"
  /\ prev.plan = [t \in DOMAIN workspaces |-> workspaces[t].Name]
  /\ prev.outcomes = [t \in DOMAIN tasks |-> tasks[t].err]

\* C24 as stated: two runs with the same plan and the same per-workspace
\* results end with the same Successful, Failed and FailedItems, order of the
\* entries included.
C24_SameStatsUnderEveryInterleaving ==
  SameRunTwice =>
    /\ stats.Successful = prev.stats.Successful
    /\ stats.Failed = prev.stats.Failed
    /\ stats.FailedItems = prev.stats.FailedItems

\* the number of positions of the sequence items that hold entry
Occurrences(items, entry) == Cardinality({k \in DOMAIN items : items[k] = entry})

\* C24, amended: once every task has recorded its outcome, Successful and
\* Failed count the tasks that returned nil and an error, and FailedItems holds
\* the entries of the failed tasks, each as often as it was appended, in the
\* order in which the tasks took the lock; two runs with the same plan and
\* results agree on the counts and on the entries, not on their order.
C24_SameCountsUnderEveryInterleaving ==
  /\ (diag.planned /\ pc \in {"done", "exited"}) =>
       /\ stats.Successful = Cardinality({t \in TaskIds : tasks[t].err = Nil})
       /\ stats.Failed = Cardinality({t \in TaskIds : tasks[t].err # Nil})
       /\ Len(stats.FailedItems) = stats.Failed
       /\ \A t \in TaskIds :
            tasks[t].err # Nil =>
              Occurrences(stats.FailedItems, FailureOf(t)) =
                Cardinality({u \in TaskIds : tasks[u].err # Nil /\ FailureOf(u) = FailureOf(t)})
  /\ SameRunTwice =>
       /\ stats.Successful = prev.stats.Successful
       /\ stats.Failed = prev.stats.Failed
       /\ \A k \in DOMAIN stats.FailedItems :
            Occurrences(stats.FailedItems, stats.FailedItems[k]) =
              Occurrences(prev.stats.FailedItems, stats.FailedItems[k])

\* two runs with the same plan and results in which two tasks failed and were
\* recorded in opposite orders
C24_Witness ==
  /\ SameRunTwice
  /\ stats.Failed = 2
  /\ stats.FailedItems # prev.stats.FailedItems
  /\ stats.FailedItems[1] = prev.stats.FailedItems[2]
  /\ stats.FailedItems[2] = prev.stats.FailedItems[1]


\* task t is between mu.Lock() and mu.Unlock()
InStatsSection(t) == tasks[t].pc \in {"count", "append", "unlock"}

\* task t has incremented its counter
Counted(t) == tasks[t].pc \in {"append", "unlock", "release", "done"}

\* C25: at most one task is between mu.Lock() and mu.Unlock(), and it is the
\* holder of mu; every task that has incremented a counter is in Successful +
\* Failed; and whenever mu is free Failed equals the length of FailedItems (the
\* one place they differ is the holder between its increment and its append).
C25_StatsUpdateExclusive ==
  /\ \A t, u \in TaskIds : (InStatsSection(t) /\ InStatsSection(u)) => t = u
  /\ \A t \in TaskIds : InStatsSection(t) <=> mu = t
  /\ stats.Successful + stats.Failed = Cardinality({t \in TaskIds : Counted(t)})
  /\ stats.Failed = Cardinality({t \in TaskIds : Counted(t) /\ tasks[t].err # Nil})
  /\ mu = 0 => Len(stats.FailedItems) = stats.Failed
  /\ mu # 0 =>
       Len(stats.FailedItems) = stats.Failed - (IF tasks[mu].pc = "append" THEN 1 ELSE 0)

\* a failed task holds mu between its increment and its append while another
\* task of the batch waits in mu.Lock()
C25_Witness ==
  \E t, u \in TaskIds :
    /\ mu = t /\ tasks[t].pc = "append"
    /\ stats.Failed = Len(stats.FailedItems) + 1
    /\ tasks[u].pc = "lock"


\* C26: a task inside migrateWorkspace (fetching, uploading or sleeping
\* before a retry) does not hold mu, nor does a task that has not acquired its
\* slot or is at its deferred slot release; the holder of mu has left
\* migrateWorkspace and still holds its slot; outside a batch (validation,
\* planning with its existence checks, pacing, final log) mu is free.
C26_LockNeverAcrossIO ==
  /\ \A t \in TaskIds :
       /\ InMigrate(t) => mu # t
       /\ tasks[t].pc \in {"idle", "sem", "lock", "release", "done"} => mu # t
       /\ mu = t => Returned(t) /\ HoldsSlot(t)
  /\ mu # 0 => mu \in TaskIds /\ pc = "wait"

\* a task whose upload succeeded holds mu while another task of the batch
\* sleeps before a retry
C26_Witness ==
  \E t, u \in TaskIds :
    /\ mu = t /\ tasks[t].okAt > 0 /\ tasks[t].pc = "count"
    /\ tasks[u].pc = "backoff"


\* C27: processBatch has returned nil for every batch that joined, whatever
\* its tasks returned; no task fetches twice; and once processBatches' loop is
\* over every batch of the plan has been handed to processBatch and every
\* entry of the plan has had its one fetch attempt and has finished; after
\* planning Migrate returns nil or the failure-count error only.
C27_FailuresNeverAbort ==
  /\ \A k \in DOMAIN batches :
       /\ batches[k].err \in {"running", "nil"}
       /\ (k < Len(batches) \/ pc # "wait") => batches[k].err = "nil"
  /\ \A t \in TaskIds : tasks[t].fetchCalls <= 1
  /\ diag.planned => ret \in {"none", "nil", "errFailures"}
  /\ BatchesOver =>
       /\ Len(batches) = TotalBatches(Len(workspaces), config.BatchSize)
       /\ DOMAIN tasks = DOMAIN workspaces
       /\ \A t \in TaskIds : tasks[t].fetchCalls = 1 /\ tasks[t].pc = "done"

\* every task of the first batch failed, and the run went on to a second batch
\* whose task fetched and finished
C27_Witness ==
  /\ BatchesOver
  /\ Len(batches) >= 2
  /\ \A t \in 1..Len(batches[1].items) : tasks[t].err # Nil
  /\ Len(batches[1].items) >= 2
  /\ \E t \in TaskIds :
       t > Len(batches[1].items) /\ tasks[t].fetchCalls = 1 /\ tasks[t].pc = "done"


\* no task waits for a slot of the semaphore and none holds one; a task's
\* places only advance (idle, sem, the places that hold a slot, done), so a
\* task seen waiting or holding before such a state has got and released its slot
SlotsQuiet == \A t \in TaskIds : tasks[t].pc # "sem" /\ ~HoldsSlot(t)

\* C28: every run reaches the exit of the command; again and again no task
\* waits for a slot or holds one, so every task that waits gets a slot and
\* every task that holds one releases it, whatever it returned; every batch
\* handed to processBatch joins; no task makes more than retry_attempts
\* UploadState calls; and at the exit no slot is held and no task is unfinished.
C28_RunTerminates ==
  /\ [](\A t \in TaskIds : tasks[t].uploadCalls <= config.RetryAttempts)
  /\ [](pc = "exited" => sem = 0 /\ wg = 0 /\ \A t \in TaskIds : tasks[t].pc = "done")
  /\ <>(pc = "exited")
  /\ (pc = "wait") ~> (pc # "wait")
  /\ []<>SlotsQuiet

\* a run exited in which a task that had waited behind a full semaphore and
\* then failed all its attempts released its slot
C28_Witness ==
  /\ pc = "exited"
  /\ Len(workspaces) > config.ConcurrentUploads
  /\ config.BatchSize > config.ConcurrentUploads
  /\ \E t \in TaskIds :
       /\ tasks[t].pc = "done"
       /\ tasks[t].err # Nil
       /\ tasks[t].uploadCalls = config.RetryAttempts
       /\ config.RetryAttempts >= 2

\* the last UploadState call of task t has returned to the retry loop and its
\* result is still in uploadErr
UploadCallReturned(t) ==
  /\ tasks[t].uploadCalls > 0
  /\ tasks[t].pc \in {"backoff", "lock", "count", "append", "unlock", "release"}

\* C29: an UploadState call that returned nil wrote the state object and then
\* the metadata object, once each, under the keys of the workspace's normalized
\* name, and both are in the bucket; a call whose state write failed wrote
\* nothing; the metadata object is never written unless the state object was
\* written before it by the same call (a call whose metadata write failed has
\* written the state object alone).
C29_UploadWritesStateThenMetadata ==
  \A t \in TaskIds :
    LET sk == DestinationKey[workspaces[t].Name][stateFile]
        mk == DestinationKey[workspaces[t].Name][metadataFile]
        w == tasks[t].writes
    IN /\ tasks[t].pc = "putState" => w = <<>>
       /\ tasks[t].pc = "putMeta" => w = <<sk>>
       /\ \A k \in DOMAIN w : w[k] = mk => (k = 2 /\ w[1] = sk)
       /\ UploadCallReturned(t) =>
            /\ tasks[t].uploadErr = Nil =>
                 w = <<sk, mk>> /\ s3[sk].present /\ s3[mk].present
            /\ tasks[t].uploadErr.op = "state" => w = <<>>
            /\ tasks[t].uploadErr.op = "metadata" => w = <<sk>>

\* a task whose second UploadState call returned nil, after a first call that
\* failed, has written both objects and the metadata object is in the bucket
C29_Witness ==
  \E t \in TaskIds :
    /\ UploadCallReturned(t)
    /\ tasks[t].uploadErr = Nil
    /\ tasks[t].okAt = 2
    /\ Len(tasks[t].writes) = 2
    /\ workspaces[t].Name = Catalogue[1]
    /\ s3[DestinationKey[Catalogue[1]][metadataFile]] = Object(workspaces[t].ID)


\* positions t and u of the plan hold two different workspaces with one
\* destination, the run is over and both tasks returned nil after an upload
CollidedAndSucceeded(t, u) ==
  /\ BatchesOver
  /\ workspaces[t].ID # workspaces[u].ID
  /\ Destination[workspaces[t].Name] = Destination[workspaces[u].Name]
  /\ tasks[t].err = Nil /\ tasks[t].okAt > 0
  /\ tasks[u].err = Nil /\ tasks[u].okAt > 0

Kept ==
  {k \in DOMAIN diag.resolved :
     /\ diag.resolved[k].HasState
     /\ \/ ~ExistedAtPlanning(diag.resolved[k].Name)
        \/ k \in diag.checkErrs}

\* C31: the migration set is the resolved sequence restricted to the
\* workspaces with state whose existence check returned false or an error, in
\* the same order; the existence checks made are one per resolved workspace
\* with state, in order, and none for a workspace without state.
C31_PlanIsFilteredSubsequence ==
  diag.planned =>
    LET kept == Kept
        checks == StateChecks(diag.resolved)
    IN /\ Len(workspaces) = Cardinality(kept)
       /\ \A k \in kept :
            workspaces[Cardinality({j \in kept : j <= k})] = diag.resolved[k]
       /\ Len(diag.checked) = Cardinality(checks)
       /\ \A k \in checks :
            diag.checked[Cardinality({j \in checks : j <= k})] = diag.resolved[k].Name

\* three workspaces resolved: the second has no state, the third's destination
\* is in the bucket but its check failed; the plan is the first and the third
\* and two checks were made
C31_Witness ==
  /\ diag.planned
  /\ Len(diag.resolved) = 3
  /\ ~diag.resolved[2].HasState
  /\ diag.checkErrs = {3}
  /\ workspaces = <<diag.resolved[1], diag.resolved[3]>>
  /\ Len(diag.checked) = 2


\* C32: the counts the planner logs partition the resolved set: total_found =
\* with_state + without_state and with_state = already_migrated + to_migrate,
\* with_state being the number of resolved workspaces that have state.
C32_SummaryCountsPartition ==
  diag.planned =>
    /\ diag.analysis.total_found = diag.analysis.with_state + diag.analysis.without_state
    /\ diag.analysis.with_state =
         diag.analysis.already_migrated + diag.analysis.to_migrate
    /\ diag.analysis.with_state = Cardinality(StateChecks(diag.resolved))

\* C33: outside a dry run, a task counted as successful (or returned as nil)
\* has had an UploadState call return nil.
C33_SuccessOnlyAfterUpload ==
  ~options.DryRun =>
    \A t \in TaskIds :
      (Returned(t) /\ tasks[t].err = Nil) => tasks[t].okAt > 0


\* C34: once the run is over, every destination that holds a state object
\* holds a metadata object too, written for the same workspace.
C34_StateAndMetadataPaired ==
  pc \in {"done", "exited"} =>
    \A name \in Range(Catalogue) :
      LET sk == DestinationKey[name][stateFile]
          mk == DestinationKey[name][metadataFile]
      IN s3[sk].present => (s3[mk].present /\ s3[mk].ws = s3[sk].ws)


\* C35: while mu is free FailedItems has as many entries as Failed counts;
\* every entry carries the name of a position of the plan whose task returned
\* that error; and stats.Total is 0 before planning and the length of the plan
\* from then on, whatever the batches do.
C35_FailedItemsMatchFailed ==
  /\ mu = 0 => Len(stats.FailedItems) = stats.Failed
  /\ \A k \in DOMAIN stats.FailedItems :
       \E t \in TaskIds :
         /\ Returned(t)
         /\ tasks[t].err # Nil
         /\ stats.FailedItems[k] = FailureOf(t)
  /\ stats.Total = IF diag.planned THEN Len(workspaces) ELSE 0

\* in a batch of a three-workspace plan two tasks have failed and recorded it,
\* mu is free and the third task is still uploading
C35_Witness ==
  /\ mu = 0
  /\ pc = "wait"
  /\ stats.Total = 3
  /\ stats.Failed = 2
  /\ Len(stats.FailedItems) = 2
  /\ \E t \in TaskIds : InUpload(t)


\* C36: when the planner returned an empty plan Migrate has returned nil (and
\* the command exits with 0): no batch was handed to processBatch, no task
\* exists (so no GetWorkspaceState and no UploadState call), the bucket is as
\* it was and nothing was counted.
C36_EmptyPlanIsSuccess ==
  (diag.planned /\ Len(workspaces) = 0) =>
    /\ pc \in {"done", "exited"}
    /\ ret = "nil"
    /\ pc = "exited" => exitCode = 0
    /\ batches = <<>> /\ pacing = <<>>
    /\ tasks = <<>>
    /\ s3 = s3Before
    /\ stats = ZeroStats

\* a filtered run none of whose names resolved has exited with 0
C36_Witness ==
  /\ pc = "exited" /\ exitCode = 0
  /\ diag.planned
  /\ Len(options.Projects) > 0
  /\ Len(diag.notFound) = Len(options.Projects)
  /\ Len(tfc) > 0
  /\ workspaces = <<>>

====
